---- MODULE Spec2Model ----
(***************************************************************************)
(* Model of clwind (src/mod.ts): the CLW styled-string builder.            *)
(*                                                                         *)
(* A JavaScript string is modelled as the sequence of its characters, each *)
(* character a one-character TLA+ string, so that replace, padStart, join, *)
(* the regular expression test, parseInt and Number.toString are computed  *)
(* character by character.  The byte 0x1B is the single character ESC.     *)
(* A JavaScript number is an integer, or the record NaN.                   *)
(***************************************************************************)
EXTENDS Integers, Sequences, FiniteSets, TLC

VARIABLES
    str,      \* CLW.str      (private str: string)
    color,    \* CLW.color    (private color: string = "")
    bgColor,  \* CLW.bgColor  (private bgColor: string = "")
    style,    \* CLW.style    (private style: string[] = [])
    call,     \* the last method invoked on the builder, [op, arg]
    ret,      \* how that invocation ended: returned this, a string, or threw
    chain     \* the pending calls of a chained expression (SpecChain only)

vars == <<str, color, bgColor, style, call, ret, chain>>

-----------------------------------------------------------------------------
(* Bounds of the model *)

\* longest style list the model builds
MaxStyles == 2

\* longest hex string body enumerated as an argument of text_hex / bg_hex
\* (7 hex digits keep parseInt within TLC's integers)
MaxHexLen == 7

-----------------------------------------------------------------------------
(* Characters and strings *)

ESC == "ESC"

DigitChars == <<"0", "1", "2", "3", "4", "5", "6", "7", "8", "9",
                "a", "b", "c", "d", "e", "f">>

\* value of a character as a digit; 36 for a character that is no digit
DigitValue(c) ==
    CASE c = "0" -> 0 [] c = "1" -> 1 [] c = "2" -> 2 [] c = "3" -> 3
      [] c = "4" -> 4 [] c = "5" -> 5 [] c = "6" -> 6 [] c = "7" -> 7
      [] c = "8" -> 8 [] c = "9" -> 9
      [] c \in {"a", "A"} -> 10 [] c \in {"b", "B"} -> 11
      [] c \in {"c", "C"} -> 12 [] c \in {"d", "D"} -> 13
      [] c \in {"e", "E"} -> 14 [] c \in {"f", "F"} -> 15
      [] OTHER -> 36

NaN == [nan |-> TRUE, v |-> 0]

Num(n) == [nan |-> FALSE, v |-> n]

RECURSIVE Digits(_, _)
Digits(n, radix) ==
    IF n < radix THEN <<DigitChars[n + 1]>>
    ELSE Digits(n \div radix, radix) \o <<DigitChars[(n % radix) + 1]>>

\* Number.prototype.toString(radix) of an integer
NumberToString(n, radix) ==
    IF n < 0 THEN <<"-">> \o Digits(-n, radix) ELSE Digits(n, radix)

RECURSIVE Repeat(_, _)
Repeat(c, n) == IF n <= 0 THEN <<>> ELSE <<c>> \o Repeat(c, n - 1)

\* String.prototype.padStart(len, fill) with a one-character fill
padStart(s, len, fill) ==
    IF Len(s) >= len THEN s ELSE Repeat(fill, len - Len(s)) \o s

\* String.prototype.replace(/^#/, "")
StripHash(s) == IF Len(s) > 0 /\ s[1] = "#" THEN Tail(s) ELSE s

RECURSIVE TrimStart(_)
TrimStart(s) == IF Len(s) > 0 /\ s[1] = " " THEN TrimStart(Tail(s)) ELSE s

\* length of the longest prefix of s made of digits of the radix
RECURSIVE DigitPrefixLen(_, _)
DigitPrefixLen(s, radix) ==
    IF Len(s) > 0 /\ DigitValue(s[1]) < radix
    THEN 1 + DigitPrefixLen(Tail(s), radix)
    ELSE 0

RECURSIVE DigitsValue(_, _)
DigitsValue(s, radix) ==
    IF Len(s) = 0 THEN 0
    ELSE DigitsValue(SubSeq(s, 1, Len(s) - 1), radix) * radix
         + DigitValue(s[Len(s)])

\* the digits of w in radix R, up to the first character that is no digit
ParseDigits(w, R) ==
    IF DigitPrefixLen(w, R) = 0
    THEN NaN
    ELSE Num(DigitsValue(SubSeq(w, 1, DigitPrefixLen(w, R)), R))

\* an optional 0x or 0X prefix (radix 16 or omitted), then the digits
ParseMagnitude(u, radix) ==
    IF radix \in {0, 16} /\ Len(u) >= 2 /\ u[1] = "0" /\ u[2] \in {"x", "X"}
    THEN ParseDigits(SubSeq(u, 3, Len(u)), 16)
    ELSE ParseDigits(u, IF radix = 0 THEN 10 ELSE radix)

Negate(num) == IF num.nan THEN NaN ELSE Num(-num.v)

\* an optional sign, then the magnitude
ParseSigned(t, radix) ==
    IF Len(t) > 0 /\ t[1] = "-" THEN Negate(ParseMagnitude(Tail(t), radix))
    ELSE IF Len(t) > 0 /\ t[1] = "+" THEN ParseMagnitude(Tail(t), radix)
    ELSE ParseMagnitude(t, radix)

\* parseInt(s, radix); radix 0 stands for an omitted radix
parseInt(s, radix) == ParseSigned(TrimStart(s), radix)

\* ToInt32 of a number: NaN becomes 0 (the model's integers fit 32 bits)
ToInt32(num) == IF num.nan THEN 0 ELSE num.v

\* num >> k
ShiftRight(num, k) == ToInt32(num) \div (2 ^ k)

\* num & 0xff
AndFF(n) == n % 256

\* Array.prototype.join
RECURSIVE join(_, _)
join(list, sep) ==
    IF Len(list) = 0 THEN <<>>
    ELSE IF Len(list) = 1 THEN list[1]
    ELSE list[1] \o sep \o join(Tail(list), sep)

-----------------------------------------------------------------------------
(* enum Color, enum Style *)

Color ==
    [BLACK |-> <<"3", "0">>, RED |-> <<"3", "1">>, GREEN |-> <<"3", "2">>,
     YELLOW |-> <<"3", "3">>, BLUE |-> <<"3", "4">>, MAGENTA |-> <<"3", "5">>,
     CYAN |-> <<"3", "6">>, WHITE |-> <<"3", "7">>,
     BRIGHT_BLACK |-> <<"9", "0">>, BRIGHT_RED |-> <<"9", "1">>,
     BRIGHT_GREEN |-> <<"9", "2">>, BRIGHT_YELLOW |-> <<"9", "3">>,
     BRIGHT_BLUE |-> <<"9", "4">>, BRIGHT_MAGENTA |-> <<"9", "5">>,
     BRIGHT_CYAN |-> <<"9", "6">>, BRIGHT_WHITE |-> <<"9", "7">>]

Style ==
    [BOLD |-> <<"1">>, DIM |-> <<"2">>, ITALIC |-> <<"3">>,
     UNDERLINE |-> <<"4">>, BLINK |-> <<"5">>, INVERT |-> <<"7">>,
     HIDDEN |-> <<"8">>, STRIKE |-> <<"9">>]

-----------------------------------------------------------------------------
(* Hex, RGB, HexToRGB *)

\* an argument of type number | string
NumArg(n) == [type |-> "number", val |-> n]

StrArg(s) == [type |-> "string", val |-> s]

Hex(hex) ==
    IF hex.type = "string"
    THEN padStart(StripHash(hex.val), 6, "0")
    ELSE padStart(NumberToString(hex.val, 16), 6, "0")

RGB(r, g, b) ==
    NumberToString(r, 10) \o <<";">> \o NumberToString(g, 10)
        \o <<";">> \o NumberToString(b, 10)

\* /^#([0-9a-f]{3}){1,2}$/i.test(s)
HexPatternTest(s) ==
    /\ Len(s) \in {4, 7}
    /\ s[1] = "#"
    /\ \A i \in 2..Len(s) : DigitValue(s[i]) < 16

\* the value of an expression: a string, or the Error its evaluation threw
Value(s) == [thrown |-> FALSE, error |-> "", val |-> s]

Thrown(e) == [thrown |-> TRUE, error |-> e, val |-> <<>>]

\* const r = num >> 16; const g = (num >> 8) & 0xff; const b = num & 0xff;
\* return RGB(r, g, b)
Channels(num) ==
    RGB(ShiftRight(num, 16), AndFF(ShiftRight(num, 8)), AndFF(ToInt32(num)))

HexToRGB(hex) ==
    IF HexPatternTest(hex)
    THEN Thrown("Invalid hex color")
    ELSE Value(Channels(parseInt(hex, 16)))

-----------------------------------------------------------------------------
(* class CLW.  A method takes the object t and returns the outcome         *)
(* [obj, kind, val, error]: the object after the call, and whether the     *)
(* call returned this (kind "this"), returned a string (kind "string",     *)
(* val) or threw (kind "throw", error).                                    *)

CLW(s) == [str |-> s, color |-> <<>>, bgColor |-> <<>>, style |-> <<>>]

ReturnThis(t) == [obj |-> t, kind |-> "this", val |-> <<>>, error |-> ""]

ReturnString(t, s) == [obj |-> t, kind |-> "string", val |-> s, error |-> ""]

Throw(t, e) == [obj |-> t, kind |-> "throw", val |-> <<>>, error |-> e]

\* codes.push(x) when the condition holds
PushIf(codes, cond, x) == IF cond THEN Append(codes, x) ELSE codes

\* variant: the text is wrapped even when there is no code
Wrap_always(codes, s) ==
    <<ESC, "[">> \o join(codes, <<";">>) \o <<"m">> \o s
        \o <<ESC, "[", "0", "m">>

\* codes.length === 0 ? this.str : `\x1b[${codes.join(";")}m${this.str}\x1b[0m`
Wrap(codes, s) ==
    IF Len(codes) = 0 THEN s
    ELSE <<ESC, "[">> \o join(codes, <<";">>) \o <<"m">> \o s
             \o <<ESC, "[", "0", "m">>

\* variant: the styles are emitted after the background
toString_stylesLast(t) ==
    ReturnString(t,
        Wrap(PushIf(PushIf(PushIf(<<>>, t.color # <<>>, t.color),
                           t.bgColor # <<>>, t.bgColor),
                    Len(t.style) > 0, join(t.style, <<";">>)),
             t.str))

\* variant: rendering consumes the style list
toString_consuming(t) ==
    ReturnString([t EXCEPT !.style = <<>>],
        Wrap(PushIf(PushIf(PushIf(<<>>, t.color # <<>>, t.color),
                           Len(t.style) > 0, join(t.style, <<";">>)),
                    t.bgColor # <<>>, t.bgColor),
             t.str))

toString(t) ==
    ReturnString(t,
        Wrap(PushIf(PushIf(PushIf(<<>>, t.color # <<>>, t.color),
                           Len(t.style) > 0, join(t.style, <<";">>)),
                    t.bgColor # <<>>, t.bgColor),
             t.str))

\* colorCode.toString(), or the Error thrown when colorCode is NaN
CodeToString(colorCode) ==
    IF colorCode.nan
    THEN Thrown("Invalid color code")
    ELSE Value(NumberToString(colorCode.v, 10))

\* parseInt(color) + (bg ? 10 : 0)
Plus(num, n) == IF num.nan THEN NaN ELSE Num(num.v + n)

\* variant: the background offset is not added
colorToAnsii_noOffset(c, bg) ==
    CodeToString(Plus(parseInt(Color[c], 0), 0))

colorToAnsii(c, bg) ==
    CodeToString(Plus(parseInt(Color[c], 0), IF bg THEN 10 ELSE 0))

\* `${prefix}${e}`: the template literal throws what its expression throws
Template(prefix, e) == IF e.thrown THEN e ELSE Value(prefix \o e.val)

\* this.color = e; return this
AssignColor(t, e) ==
    IF e.thrown THEN Throw(t, e.error)
    ELSE ReturnThis([t EXCEPT !.color = e.val])

\* this.bgColor = e; return this
AssignBgColor(t, e) ==
    IF e.thrown THEN Throw(t, e.error)
    ELSE ReturnThis([t EXCEPT !.bgColor = e.val])

\* text_red(), text_green(), ... are text(Color.RED), text(Color.GREEN), ...
text(t, c) == AssignColor(t, colorToAnsii(c, FALSE))

\* variant: the prefix is assigned before the conversion can throw
text_hex_assignFirst(t, hex) ==
    AssignColor([t EXCEPT !.color = <<"3", "8", ";", "2", ";">>],
                Template(<<"3", "8", ";", "2", ";">>, HexToRGB(Hex(hex))))

text_hex(t, hex) ==
    AssignColor(t, Template(<<"3", "8", ";", "2", ";">>, HexToRGB(Hex(hex))))

text_rgb(t, rgb) ==
    AssignColor(t, Template(<<"3", "8", ";", "2", ";">>,
                            Value(RGB(rgb[1], rgb[2], rgb[3]))))

text_256(t, n) ==
    AssignColor(t, Template(<<"3", "8", ";", "5", ";">>,
                            Value(NumberToString(n, 10))))

\* bg_red(), bg_green(), ... are bg(Color.RED), bg(Color.GREEN), ...
bg(t, c) == AssignBgColor(t, colorToAnsii(c, TRUE))

bg_hex(t, hex) ==
    AssignBgColor(t, Template(<<"4", "8", ";", "2", ";">>, HexToRGB(Hex(hex))))

bg_rgb(t, rgb) ==
    AssignBgColor(t, Template(<<"4", "8", ";", "2", ";">>,
                              Value(RGB(rgb[1], rgb[2], rgb[3]))))

\* variant: the index is written to the foreground as well
bg_256_bothSlots(t, n) ==
    AssignBgColor([t EXCEPT !.color = <<"3", "8", ";", "5", ";">> \o NumberToString(n, 10)],
                  Template(<<"4", "8", ";", "5", ";">>,
                           Value(NumberToString(n, 10))))

bg_256(t, n) ==
    AssignBgColor(t, Template(<<"4", "8", ";", "5", ";">>,
                              Value(NumberToString(n, 10))))

\* variant: a style already in the list is not appended again
font_dedup(t, s) ==
    IF \E i \in 1..Len(t.style) : t.style[i] = Style[s]
    THEN ReturnThis(t)
    ELSE ReturnThis([t EXCEPT !.style = Append(t.style, Style[s])])

\* font_bold(), font_dim(), ... are font(Style.BOLD), font(Style.DIM), ...
font(t, s) == ReturnThis([t EXCEPT !.style = Append(t.style, Style[s])])

\* variant: the style list is not cleared
reset_keepingStyle(t) ==
    ReturnThis([t EXCEPT !.color = <<>>, !.bgColor = <<>>])

reset(t) == ReturnThis([t EXCEPT !.color = <<>>, !.bgColor = <<>>, !.style = <<>>])

\* the method named op applied to t with argument arg
Dispatch(t, op, arg) ==
    CASE op = "text" -> text(t, arg)
      [] op = "text_hex" -> text_hex(t, arg)
      [] op = "text_rgb" -> text_rgb(t, arg)
      [] op = "text_256" -> text_256(t, arg)
      [] op = "bg" -> bg(t, arg)
      [] op = "bg_hex" -> bg_hex(t, arg)
      [] op = "bg_rgb" -> bg_rgb(t, arg)
      [] op = "bg_256" -> bg_256(t, arg)
      [] op = "font" -> font(t, arg)
      [] op = "reset" -> reset(t)
      [] op = "toString" -> toString(t)

-----------------------------------------------------------------------------
(* The builder as a state machine *)

this == [str |-> str, color |-> color, bgColor |-> bgColor, style |-> style]

\* the builder's fields, the call and how it ended, after outcome o
Commit(o, op, arg) ==
    /\ str' = o.obj.str
    /\ color' = o.obj.color
    /\ bgColor' = o.obj.bgColor
    /\ style' = o.obj.style
    /\ call' = [op |-> op, arg |-> arg]
    /\ ret' = [kind |-> o.kind, val |-> o.val, error |-> o.error]

\* one method call on the builder
Invoke(op, arg) == Commit(Dispatch(this, op, arg), op, arg)

X == <<"X">>

Hello == <<"H", "e", "l", "l", "o", ",", " ", "w", "o", "r", "l", "d", "!">>

Texts == {X, Hello}

Call(op, arg) == [op |-> op, arg |-> arg]

NoCall == Call("none", <<>>)

\* no chained expression is being driven
NoChain ==
    [text |-> <<>>, fg |-> NoCall, bg |-> NoCall, styles |-> <<>>,
     reset |-> FALSE, order |-> <<>>]

\* clw`...` : new CLW(String.raw(...))
New(s) ==
    /\ str = CLW(s).str
    /\ color = CLW(s).color
    /\ bgColor = CLW(s).bgColor
    /\ style = CLW(s).style
    /\ call = Call("new", s)
    /\ ret = [kind |-> "this", val |-> <<>>, error |-> ""]

-----------------------------------------------------------------------------
(* Spec: any sequence of method calls on one builder *)

NamedArgs == {"BLUE", "BRIGHT_RED"}

StyleArgs == {"BOLD", "BLINK", "STRIKE"}

IndexArgs == {0, 255}

RGBArgs == {<<12, 34, 56>>}

HexArgs ==
    {NumArg(16711680),
     StrArg(<<"0", "0", "f", "f", "0", "0">>),
     StrArg(<<"#", "f", "f", "f">>),
     StrArg(<<"#", "#", "0", "0", "0", "0", "F", "F">>)}

Text == /\ \E c \in NamedArgs : Invoke("text", c)
        /\ UNCHANGED chain

TextHex == /\ \E h \in HexArgs : Invoke("text_hex", h)
           /\ UNCHANGED chain

TextRgb == /\ \E rgb \in RGBArgs : Invoke("text_rgb", rgb)
           /\ UNCHANGED chain

Text256 == /\ \E n \in IndexArgs : Invoke("text_256", n)
           /\ UNCHANGED chain

Bg == /\ \E c \in NamedArgs : Invoke("bg", c)
      /\ UNCHANGED chain

BgHex == /\ \E h \in HexArgs : Invoke("bg_hex", h)
         /\ UNCHANGED chain

BgRgb == /\ \E rgb \in RGBArgs : Invoke("bg_rgb", rgb)
         /\ UNCHANGED chain

Bg256 == /\ \E n \in IndexArgs : Invoke("bg_256", n)
         /\ UNCHANGED chain

Font == /\ Len(style) < MaxStyles
        /\ \E s \in StyleArgs : Invoke("font", s)
        /\ UNCHANGED chain

Reset == /\ Invoke("reset", <<>>)
         /\ UNCHANGED chain

Render == /\ Invoke("toString", <<>>)
          /\ UNCHANGED chain

Init == /\ \E s \in Texts : New(s)
        /\ chain = NoChain

Next ==
    \/ Text \/ TextHex \/ TextRgb \/ Text256
    \/ Bg \/ BgHex \/ BgRgb \/ Bg256
    \/ Font \/ Reset \/ Render

Spec == Init /\ [][Next]_vars

-----------------------------------------------------------------------------
(* Chained expressions: clw`text`.a().b()....toString()                    *)
(*                                                                         *)
(* chain holds the calls of one chained expression: at most one foreground *)
(* setter fg, at most one background setter bg, the style appenders styles *)
(* in their order, and whether reset() is among the calls.  The calls are  *)
(* made in any interleaving that keeps the order of the style appenders;   *)
(* order lists the calls made so far.  toString() may be called at any     *)
(* point.                                                                  *)

FgOps == {"text", "text_hex", "text_rgb", "text_256"}

BgOps == {"bg", "bg_hex", "bg_rgb", "bg_256"}

IsFg(c) == c.op \in FgOps

IsBg(c) == c.op \in BgOps

IsFont(c) == c.op = "font"

IsReset(c) == c.op = "reset"

\* how many calls of each kind the chain has made
MadeFg == Len(SelectSeq(chain.order, IsFg))

MadeBg == Len(SelectSeq(chain.order, IsBg))

MadeFont == Len(SelectSeq(chain.order, IsFont))

MadeReset == Len(SelectSeq(chain.order, IsReset))

ChainFg ==
    /\ chain.fg.op # "none"
    /\ MadeFg = 0
    /\ Invoke(chain.fg.op, chain.fg.arg)
    /\ chain' = [chain EXCEPT !.order = Append(@, chain.fg)]

ChainBg ==
    /\ chain.bg.op # "none"
    /\ MadeBg = 0
    /\ Invoke(chain.bg.op, chain.bg.arg)
    /\ chain' = [chain EXCEPT !.order = Append(@, chain.bg)]

ChainFont ==
    /\ MadeFont < Len(chain.styles)
    /\ Invoke("font", chain.styles[MadeFont + 1])
    /\ chain' = [chain EXCEPT
           !.order = Append(@, Call("font", chain.styles[MadeFont + 1]))]

ChainReset ==
    /\ chain.reset
    /\ MadeReset = 0
    /\ Invoke("reset", <<>>)
    /\ chain' = [chain EXCEPT !.order = Append(@, Call("reset", <<>>))]

ChainRender ==
    /\ call.op # "toString"
    /\ Invoke("toString", <<>>)
    /\ UNCHANGED chain

NextChain == ChainFg \/ ChainBg \/ ChainFont \/ ChainReset \/ ChainRender

\* chains without reset()
NextNamed == ChainFg \/ ChainBg \/ ChainFont \/ ChainRender

\* chains of one setter
NextHex == ChainFg \/ ChainBg \/ ChainRender

SeqsUpTo(S, n) == UNION {[1..k -> S] : k \in 0..n}

Plans(texts, fgs, bgs, styleSeqs, resets) ==
    [text : texts, fg : fgs, bg : bgs, styles : styleSeqs, reset : resets,
     order : {<<>>}]

ChainFgCalls ==
    {Call("text", "BLUE"), Call("text_hex", NumArg(16711680)), NoCall}

ChainBgCalls == {Call("bg", "BLUE"), Call("bg_256", 255), NoCall}

ChainStyles == {"BOLD", "BLINK"}

InitChain ==
    /\ chain \in Plans({Hello}, ChainFgCalls, ChainBgCalls,
                       SeqsUpTo(ChainStyles, MaxStyles), BOOLEAN)
    /\ New(chain.text)

SpecChain == InitChain /\ [][NextChain]_vars

\* every named color and every style, on a builder of either text
InitNamed ==
    /\ chain \in Plans(Texts,
                       {Call("text", c) : c \in DOMAIN Color} \cup {NoCall},
                       {Call("bg", c) : c \in DOMAIN Color} \cup {NoCall},
                       SeqsUpTo(DOMAIN Style, 1), {FALSE})
    /\ New(chain.text)

SpecNamed == InitNamed /\ [][NextNamed]_vars

\* hex arguments: numbers, and strings over a small alphabet
HexAlphabet == {"#", "0", "f", "g"}

HexNumbers ==
    {0, 255, 65280, 16711680, 1193046, 16777215, 16777216, 2147483647}

HexStrings ==
    SeqsUpTo(HexAlphabet, MaxHexLen)
        \cup {<<"#">> \o s : s \in [1..MaxHexLen -> HexAlphabet]}
        \cup {<<"0", "0", "F", "F", "0", "0">>,
              <<"#", "A", "b", "C", "d", "E", "f">>,
              <<"0", "x", "1", "2", "3", "4">>,
              <<"-", "f", "f", "f", "f", "f">>,
              <<" ", "f", "f">>,
              <<"1", "2", "z", "z">>}

HexDomain ==
    {NumArg(n) : n \in HexNumbers} \cup {StrArg(s) : s \in HexStrings}

InitHex ==
    /\ chain \in Plans({X}, {Call("text_hex", h) : h \in HexDomain}, {NoCall},
                       {<<>>}, {FALSE})
               \cup Plans({X}, {NoCall}, {Call("bg_hex", h) : h \in HexDomain},
                          {<<>>}, {FALSE})
    /\ New(chain.text)

SpecHex == InitHex /\ [][NextHex]_vars

-----------------------------------------------------------------------------
(* Properties *)

CSI == <<ESC, "[">>

SGR0 == <<ESC, "[", "0", "m">>

IsNonEmpty(x) == Len(x) > 0

\* what the escape sequence must be for foreground f, joined styles st and
\* background b around text s: the ones present, in that order
ExpectedRender(f, st, b, s) ==
    IF Len(f) = 0 /\ Len(st) = 0 /\ Len(b) = 0
    THEN s
    ELSE CSI \o join(SelectSeq(<<f, st, b>>, IsNonEmpty), <<";">>) \o <<"m">>
             \o s \o SGR0

\* the builder after the calls, made one after the other on t
RECURSIVE Replay(_, _)
Replay(t, calls) ==
    IF Len(calls) = 0 THEN t
    ELSE Replay(Dispatch(t, calls[1].op, calls[1].arg).obj, Tail(calls))

StyleCodes(names) == [i \in 1..Len(names) |-> Style[names[i]]]

FontCalls(names) == [i \in 1..Len(names) |-> Call("font", names[i])]

OneCall(c) == IF c.op = "none" THEN <<>> ELSE <<c>>

\* every call of the chain has been made
ChainDone ==
    /\ MadeFg = Len(OneCall(chain.fg))
    /\ MadeBg = Len(OneCall(chain.bg))
    /\ MadeFont = Len(chain.styles)
    /\ MadeReset = (IF chain.reset THEN 1 ELSE 0)

\* the calls of the chain in the order foreground, styles, background
CanonicalOrder ==
    OneCall(chain.fg) \o FontCalls(chain.styles) \o OneCall(chain.bg)

\* C1: whatever the interleaving of the foreground setter, the background
\* setter and the style appenders of a chain (the style appenders in their
\* order), toString() returns what it returns when they are called in the
\* order foreground, styles, background; and the parameters are emitted as
\* foreground, then the styles, then background.
C1_RenderIgnoresCallOrder ==
    (~chain.reset /\ ChainDone /\ call.op = "toString") =>
        /\ ret.val = toString(Replay(CLW(chain.text), CanonicalOrder)).val
        /\ ret.val =
             ExpectedRender(Replay(CLW(chain.text), OneCall(chain.fg)).color,
                            join(StyleCodes(chain.styles), <<";">>),
                            Replay(CLW(chain.text), OneCall(chain.bg)).bgColor,
                            chain.text)

\* bg_blue(), text_blue(), font_blink() called in that order render
\* ESC[34;5;44mHello, world!ESC[0m
C1_Witness ==
    /\ call.op = "toString"
    /\ chain.order = <<Call("bg", "BLUE"), Call("text", "BLUE"),
                       Call("font", "BLINK")>>
    /\ ChainDone
    /\ ret.val = CSI \o <<"3", "4", ";", "5", ";", "4", "4", "m">> \o Hello
                     \o SGR0

\* the fixed code of each named color
ColorNumber ==
    [BLACK |-> 30, RED |-> 31, GREEN |-> 32, YELLOW |-> 33, BLUE |-> 34,
     MAGENTA |-> 35, CYAN |-> 36, WHITE |-> 37,
     BRIGHT_BLACK |-> 90, BRIGHT_RED |-> 91, BRIGHT_GREEN |-> 92,
     BRIGHT_YELLOW |-> 93, BRIGHT_BLUE |-> 94, BRIGHT_MAGENTA |-> 95,
     BRIGHT_CYAN |-> 96, BRIGHT_WHITE |-> 97]

\* C2: on a fresh builder, the named foreground setter of each of the 16
\* colors renders ESC[<c>m<text>ESC[0m with c the color's fixed code, and
\* the named background setter of that color renders ESC[<c+10>m<text>ESC[0m.
C2_NamedColorCodes ==
    (call.op = "toString" /\ Len(chain.order) = 1) =>
        /\ chain.order[1].op = "text" =>
               ret.val = CSI \o NumberToString(ColorNumber[chain.order[1].arg], 10)
                             \o <<"m">> \o chain.text \o SGR0
        /\ chain.order[1].op = "bg" =>
               ret.val = CSI \o NumberToString(ColorNumber[chain.order[1].arg] + 10, 10)
                             \o <<"m">> \o chain.text \o SGR0

\* bg_bright_white() on text X renders ESC[107mXESC[0m
C2_Witness ==
    /\ call.op = "toString"
    /\ chain.order = <<Call("bg", "BRIGHT_WHITE")>>
    /\ ret.val = CSI \o <<"1", "0", "7", "m">> \o X \o SGR0

\* C3: toString() on a builder with no foreground, no background and no
\* style returns the construction text alone; in every other state it
\* returns ESC[ + the present components joined by ';' + m + text + ESC[0m.
C3_RenderShape ==
    (call.op = "toString") =>
        ret.val = (IF color = <<>> /\ bgColor = <<>> /\ style = <<>>
                   THEN str
                   ELSE ExpectedRender(color, join(style, <<";">>), bgColor, str))

C3_Witness ==
    /\ call.op = "toString"
    /\ color = <<>> /\ bgColor = <<>> /\ style = <<>>
    /\ ret.val = Hello

\* the calls made after reset()
RECURSIVE AfterReset(_)
AfterReset(calls) ==
    IF Len(calls) = 0 THEN <<>>
    ELSE IF IsReset(calls[1]) THEN Tail(calls)
    ELSE AfterReset(Tail(calls))

\* C4: reset() leaves foreground and background unset and the style list
\* empty with the text untouched, toString() right after reset() returns the
\* construction text, and the setters called after reset() leave the builder
\* as they leave a freshly constructed one.
C4_ResetIsFresh ==
    (MadeReset = 1) =>
        /\ str = chain.text
        /\ this = Replay(CLW(chain.text), AfterReset(chain.order))
        /\ IsReset(chain.order[Len(chain.order)]) =>
               /\ color = <<>> /\ bgColor = <<>> /\ style = <<>>
               /\ call.op = "toString" => ret.val = chain.text

\* text_blue(), font_bold(), bg_blue(), reset(), toString()
C4_Witness ==
    /\ chain.order = <<Call("text", "BLUE"), Call("font", "BOLD"),
                       Call("bg", "BLUE"), Call("reset", <<>>)>>
    /\ call.op = "toString"
    /\ ret.val = Hello

\* bits k .. k+7 of v
Byte(v, k) == (v \div (2 ^ k)) % 256

AllHexDigits(s) == \A i \in 1..Len(s) : DigitValue(s[i]) < 16

\* the hex inputs: a non-negative integer, or 3 or 6 hex digits with or
\* without a leading '#'
IsHexInput(hex) ==
    IF hex.type = "number" THEN hex.val >= 0
    ELSE Len(StripHash(hex.val)) \in {3, 6} /\ AllHexDigits(StripHash(hex.val))

HexValue(hex) ==
    IF hex.type = "number" THEN hex.val ELSE DigitsValue(StripHash(hex.val), 16)

ChannelsOf(v) == RGB(Byte(v, 16), Byte(v, 8), Byte(v, 0))

\* C5: for every hex input, text_hex stores 38;2;R;G;B and bg_hex stores
\* 48;2;R;G;B with R, G, B bits 16-23, 8-15 and 0-7 of the value, each in
\* 0..255.
C5_HexStoresChannels ==
    (Len(chain.order) = 1 /\ IsHexInput(chain.order[1].arg)) =>
        /\ chain.order[1].op = "text_hex" =>
               color = <<"3", "8", ";", "2", ";">>
                           \o ChannelsOf(HexValue(chain.order[1].arg))
        /\ chain.order[1].op = "bg_hex" =>
               bgColor = <<"4", "8", ";", "2", ";">>
                             \o ChannelsOf(HexValue(chain.order[1].arg))

\* C5 for the values of 24 bits: the hex inputs whose value is at most
\* 0xFFFFFF
C5_Within24Bits ==
    (/\ Len(chain.order) = 1
     /\ IsHexInput(chain.order[1].arg)
     /\ HexValue(chain.order[1].arg) <= 16777215) =>
        /\ chain.order[1].op = "text_hex" =>
               color = <<"3", "8", ";", "2", ";">>
                           \o ChannelsOf(HexValue(chain.order[1].arg))
        /\ chain.order[1].op = "bg_hex" =>
               bgColor = <<"4", "8", ";", "2", ";">>
                             \o ChannelsOf(HexValue(chain.order[1].arg))

\* C6: text_hex and bg_hex throw "Invalid hex color" for exactly the string
\* inputs that, one leading '#' removed, are not made of hex digits only.
C6_RejectsNonHex ==
    (call.op \in {"text_hex", "bg_hex"} /\ call.arg.type = "string") =>
        ((ret.kind = "throw" /\ ret.error = "Invalid hex color")
            <=> ~AllHexDigits(StripHash(call.arg.val)))

\* C7: toString() leaves text, foreground, background and the style list
\* unchanged, and toString() called again with no call in between returns
\* the same string.
C7_RenderIsPure ==
    [][call'.op = "toString" =>
           /\ this' = this
           /\ ret'.kind = "string"
           /\ call.op = "toString" => ret'.val = ret.val]_vars

C7_Witness ==
    /\ call.op = "toString"
    /\ color # <<>> /\ bgColor # <<>> /\ Len(style) = MaxStyles

\* C8: a foreground setter leaves background, style list and text unchanged
\* and, when it returns, replaces the foreground by the value the same call
\* gives a fresh builder; a background setter likewise leaves foreground,
\* style list and text unchanged and replaces the background; font and
\* toString change neither slot, so the foreground and the background are
\* those of the last setter of each.
C8_SlotsIndependent ==
    [][/\ call'.op \in FgOps =>
              /\ bgColor' = bgColor /\ style' = style /\ str' = str
              /\ ret'.kind = "this" =>
                     /\ color' = Dispatch(CLW(<<>>), call'.op, call'.arg).obj.color
                     /\ color' # <<>>
       /\ call'.op \in BgOps =>
              /\ color' = color /\ style' = style /\ str' = str
              /\ ret'.kind = "this" =>
                     /\ bgColor' = Dispatch(CLW(<<>>), call'.op, call'.arg).obj.bgColor
                     /\ bgColor' # <<>>
       /\ call'.op \in {"font", "toString"} =>
              color' = color /\ bgColor' = bgColor]_vars

\* bg_256(255) on a builder whose foreground is 38;2;12;34;56
C8_Witness ==
    /\ call = Call("bg_256", 255)
    /\ bgColor = <<"4", "8", ";", "5", ";", "2", "5", "5">>
    /\ color = <<"3", "8", ";", "2", ";", "1", "2", ";", "3", "4", ";", "5", "6">>
    /\ Len(style) > 0

\* the calls made since construction or the last reset()
SinceReset(calls) ==
    IF Len(SelectSeq(calls, IsReset)) = 0 THEN calls ELSE AfterReset(calls)

\* the styles of the style appenders among the calls, in call order
FontArgs(calls) ==
    [i \in 1..Len(SelectSeq(calls, IsFont)) |-> SelectSeq(calls, IsFont)[i].arg]

\* C9: the style list is the codes of the style appenders called since
\* construction or the last reset(), in call order with duplicates kept (as
\* many entries as calls), and toString() emits them joined by ';' in that
\* order.
C9_StylesAppend ==
    /\ style = StyleCodes(FontArgs(SinceReset(chain.order)))
    /\ Len(style) = Len(SelectSeq(SinceReset(chain.order), IsFont))
    /\ call.op = "toString" =>
           ret.val = ExpectedRender(
                         color,
                         join(StyleCodes(FontArgs(SinceReset(chain.order))), <<";">>),
                         bgColor, str)

\* font_bold(), font_bold() render ESC[1;1mHello, world!ESC[0m
C9_Witness ==
    /\ chain.order = <<Call("font", "BOLD"), Call("font", "BOLD")>>
    /\ style = <<<<"1">>, <<"1">>>>
    /\ call.op = "toString"
    /\ ret.val = CSI \o <<"1", ";", "1", "m">> \o Hello \o SGR0

\* C10: a text_hex or bg_hex call that throws leaves text, foreground,
\* background and style list as they were, so toString() returns afterwards
\* what it returned before.
C10_ThrowLeavesBuilder ==
    [][(call'.op \in {"text_hex", "bg_hex"} /\ ret'.kind = "throw") =>
           /\ this' = this
           /\ toString(this').val = toString(this).val]_vars

C10_Witness ==
    /\ call.op = "text_hex"
    /\ ret.kind = "throw"
    /\ color # <<>> /\ bgColor # <<>> /\ Len(style) > 0

====
